---------------------------- MODULE Spec2Model ----------------------------
(***************************************************************************)
(* The four mesh-repair scripts of the repository as one state machine:    *)
(*   fix_triangles.py    weld vertices, remap and prune nested boundaries  *)
(*   cleaner.py          weld vertices, remap boundaries in place          *)
(*   repair_geometry.py  weld vertices, remap, triangulate with earcut     *)
(*   fix.py              filter degenerate pre-triangulated faces          *)
(*                                                                         *)
(* Coordinates are integers counting units of 10^-(PRECISION+1): one more  *)
(* decimal digit than the welding precision, so that round(coord,          *)
(* PRECISION) is rounding to the nearest multiple of Grid.  Vertex indices *)
(* are 0-based as in the scripts; sequence s holds index k at s[k+1].      *)
(***************************************************************************)
EXTENDS Integers, Sequences, FiniteSets, TLC

VARIABLES
    script,        \* which script is running
    runs,          \* how many times the script is run, each on the last output
    run,           \* 1: first run; 2: the script run again on its own output
    pc,            \* position in the script
    input,         \* the boundaries as loaded from INPUT_FILE, per geometry
    old_vertices,  \* the vertex array as loaded from INPUT_FILE
    vertices,      \* data['vertices'] / cm['vertices'] of the in-memory model
    boundaries,    \* geom['boundaries'] of each geometry of the in-memory model
    new_vertices,  \* welding: the deduplicated vertex array
    vertex_map,    \* welding: key -> welded index
    index_remap,   \* welding: original index -> welded index
    g,             \* geometry loop: the number of geometries already replaced
    normal,        \* triangulate_face: the normal of the last projected face
    axes           \* triangulate_face: (ax1, ax2) of the last projected face

vars == <<script, runs, run, pc, input, old_vertices, vertices, boundaries,
          new_vertices, vertex_map, index_remap, g, normal, axes>>

---------------------------------------------------------------------------
(* Bounds of the model.                                                    *)

MaxVerts == 3      \* longest vertex array of the welding inputs
MaxRingLen == 4    \* longest ring of the ring inputs
MaxTris == 1       \* most triangles the triangulation capability returns
MaxRings == 2      \* most rings of a face of the tree inputs
MaxFaces == 2      \* most faces of a shell of the tree inputs

---------------------------------------------------------------------------
(* Numbers.                                                                *)

\* 10^-PRECISION in coordinate units
Grid == 10

\* the squared-area threshold of fix_triangles.py (area_sq < 1e-16), scaled to
\* the coordinate range of the model: the smaller of the two thresholds
EpsFixTriangles == 12000

\* the squared-area threshold of fix.py (area_sq < 1e-12), scaled likewise:
\* the larger threshold, which also drops wider slivers
EpsFix == 30000

Abs(x) == IF x < 0 THEN -x ELSE x

\* round(coord, PRECISION): the nearest multiple of Grid, ties to the even one
Round(c) ==
    LET q == c \div Grid
        r == c % Grid
    IN  IF 2 * r < Grid THEN q * Grid
        ELSE IF 2 * r > Grid THEN (q + 1) * Grid
        ELSE IF q % 2 = 0 THEN q * Grid ELSE (q + 1) * Grid

\* round() of a negative coordinate that rounds to zero is the float -0.0
IsNegZero(c) == c < 0 /\ Round(c) = 0

\* fix_triangles.py: tuple(round(coord, VERTEX_PRECISION) for coord in vertex);
\* as a dict key -0.0 and 0.0 are the same key
TupleKey(v) == [k \in 1..3 |-> <<Round(v[k]), FALSE>>]

\* cleaner.py, repair_geometry.py: "_".join(map(str, rounded_v));
\* str(-0.0) is "-0.0" and str(0.0) is "0.0"
StringKey(v) == [k \in 1..3 |-> <<Round(v[k]), IsNegZero(v[k])>>]

KeyOf(s, v) == IF s = "fix_triangles" THEN TupleKey(v) ELSE StringKey(v)

Scripts == {"fix_triangles", "cleaner", "repair_geometry", "fix"}
WeldScripts == {"fix_triangles", "cleaner", "repair_geometry"}

---------------------------------------------------------------------------
(* Nested boundary structures.                                             *)

Ring(s) == [t |-> "ring", idx |-> s, kids |-> <<>>]
List(ks) == [t |-> "list", idx |-> <<>>, kids |-> ks]
None == [t |-> "none", idx |-> <<>>, kids |-> <<>>]

\* the Python list [] is List(<<>>); a ring is a non-empty list of numbers
IsRing(n) == n.t = "ring" /\ Len(n.idx) > 0

SeqsUpTo(S, lo, hi) == UNION {[1..n -> S] : n \in lo..hi}

Range(s) == {s[k] : k \in DOMAIN s}

---------------------------------------------------------------------------
(* Part 1 of fix_triangles.py, cleaner.py, repair_geometry.py: welding.    *)

\* the empty dict / the list [-1] * len(old_vertices)
EmptyMap == [k \in {} |-> 0]

InitialRemap(s, n) ==
    IF s = "fix_triangles" THEN EmptyMap ELSE [k \in 0..(n - 1) |-> -1]

\* m[k] = v
Put(m, k, v) == [x \in (DOMAIN m) \cup {k} |-> IF x = k THEN v ELSE m[x]]

\* new_idx = len(new_vertices), taken before the append
\* (cleaner.py, repair_geometry.py: new_idx_counter, incremented after it)
NewIdx(nv) == Len(nv)

\* new_vertices.append(vertex): the vertex as loaded, not its rounded key
StoredRounded(v) == [k \in 1..3 |-> Round(v[k])]

\* a welding that would store each coordinate cut down to the grid
StoredTruncated(v) == [k \in 1..3 |-> v[k] - (v[k] % Grid)]

Stored(v) == v

\* the state of the welding loop "for old_idx, vertex in
\* enumerate(old_vertices)" after its first k iterations
RECURSIVE WeldLoop(_, _, _)
WeldLoop(s, verts, k) ==
    IF k = 0
    THEN [new_vertices |-> <<>>, vertex_map |-> EmptyMap,
          index_remap |-> InitialRemap(s, Len(verts))]
    ELSE LET w == WeldLoop(s, verts, k - 1)
             old_idx == k - 1
             vertex == verts[k]
             key == KeyOf(s, vertex)
         IN  IF key \in DOMAIN w.vertex_map
             THEN [w EXCEPT !.index_remap = Put(@, old_idx, w.vertex_map[key])]
             ELSE LET new_idx == NewIdx(w.new_vertices)
                  IN  [new_vertices |-> Append(w.new_vertices, Stored(vertex)),
                       vertex_map |-> (key :> new_idx) @@ w.vertex_map,
                       index_remap |-> Put(w.index_remap, old_idx, new_idx)]

\* the welding loop, first iteration to last
Weld ==
    /\ script \in WeldScripts
    /\ pc = "weld"
    /\ LET w == WeldLoop(script, old_vertices, Len(old_vertices))
       IN  /\ new_vertices' = w.new_vertices
           /\ vertex_map' = w.vertex_map
           /\ index_remap' = w.index_remap
    /\ pc' = "install"
    /\ UNCHANGED <<script, runs, run, input, old_vertices, vertices, boundaries,
                   g, normal, axes>>

\* data['vertices'] = new_vertices
InstallVertices ==
    /\ script \in WeldScripts
    /\ pc = "install"
    /\ vertices' = new_vertices
    /\ pc' = "remap"
    /\ UNCHANGED <<script, runs, run, input, old_vertices, boundaries, new_vertices,
                   vertex_map, index_remap, g, normal, axes>>

\* index_remap[idx] of a dict raises KeyError on a missing key;
\* index_mapping[idx] of a list raises IndexError out of range and counts a
\* negative idx from the end
CanLookup(s, m, idx) ==
    IF s = "fix_triangles" THEN idx \in DOMAIN m
    ELSE LET n == Cardinality(DOMAIN m) IN -n <= idx /\ idx < n

Lookup(s, m, idx) ==
    IF s = "fix_triangles" \/ idx >= 0 THEN m[idx]
    ELSE m[idx + Cardinality(DOMAIN m)]

MapRing(s, m, r) == [k \in 1..Len(r) |-> Lookup(s, m, r[k])]

---------------------------------------------------------------------------
(* Vector helpers (fix.py) and the degeneracy check.                       *)

sub(p2, p1) == <<p2[1] - p1[1], p2[2] - p1[2], p2[3] - p1[3]>>

cross_product(a, b) ==
    <<a[2] * b[3] - a[3] * b[2],
      a[3] * b[1] - a[1] * b[3],
      a[1] * b[2] - a[2] * b[1]>>

length_squared(v) == v[1] * v[1] + v[2] * v[2] + v[3] * v[3]

area_sq(p0, p1, p2) == length_squared(cross_product(sub(p1, p0), sub(p2, p0)))

\* fix_triangles.py: return area_sq < 1e-16
BelowEpsilonNever(a) == FALSE

BelowEpsilon(a) == a < EpsFixTriangles

is_degenerate_triangle(idx0, idx1, idx2, verts) ==
    IF idx0 = idx1 \/ idx1 = idx2 \/ idx0 = idx2 THEN TRUE
    ELSE IF idx0 >= Len(verts) \/ idx1 >= Len(verts) \/ idx2 >= Len(verts) THEN TRUE
    ELSE BelowEpsilon(area_sq(verts[idx0 + 1], verts[idx1 + 1], verts[idx2 + 1]))

---------------------------------------------------------------------------
(* Step 2 of fix_triangles.py: process_boundary.                           *)

\* "Remove consecutive duplicates": append idx unless it equals cleaned[-1]
RECURSIVE CollapseConsecutive(_)
CollapseConsecutive(s) ==
    IF Len(s) <= 1 THEN s
    ELSE LET cleaned == CollapseConsecutive(SubSeq(s, 1, Len(s) - 1))
         IN  IF s[Len(s)] # cleaned[Len(cleaned)] THEN Append(cleaned, s[Len(s)])
             ELSE cleaned

\* "Remove closing duplicate if present"
TrimClosing(c) ==
    IF Len(c) > 1 /\ c[1] = c[Len(c)] THEN SubSeq(c, 1, Len(c) - 1) ELSE c

\* list(dict.fromkeys(cleaned)): the distinct indices in first-seen order
RECURSIVE Unique(_)
Unique(s) ==
    IF s = <<>> THEN <<>>
    ELSE LET u == Unique(SubSeq(s, 1, Len(s) - 1))
         IN  IF s[Len(s)] \in Range(u) THEN u ELSE Append(u, s[Len(s)])

\* "return remapped  # Return original remapped (may include closing vertex)"
RingResultCleaned(remapped, cleaned) == cleaned

RingResult(remapped, cleaned) == remapped

\* the leaf branch, every index being a key of index_remap
ProcessRing(r, verts) ==
    LET remapped == MapRing("fix_triangles", index_remap, r)
        cleaned == TrimClosing(CollapseConsecutive(remapped))
        unique == Unique(cleaned)
    IN  IF Len(unique) = 3
        THEN IF is_degenerate_triangle(unique[1], unique[2], unique[3], verts)
             THEN None
             ELSE Ring(RingResult(remapped, cleaned))
        ELSE IF Len(unique) < 3 THEN None
        ELSE Ring(RingResult(remapped, cleaned))

\* "if result is not None: processed.append(result)"
SurvivingReversed(results) ==
    LET kept == SelectSeq(results, LAMBDA r : r # None)
    IN  [k \in 1..Len(kept) |-> kept[Len(kept) + 1 - k]]

Surviving(results) == SelectSeq(results, LAMBDA r : r # None)

\* "return processed if len(processed) > 0 else None"
NodeResult(processed) == IF Len(processed) > 0 THEN List(processed) ELSE None

RECURSIVE process_boundary(_, _)
process_boundary(boundary, verts) ==
    IF boundary = List(<<>>) THEN None
    ELSE IF IsRing(boundary) THEN ProcessRing(boundary.idx, verts)
    ELSE NodeResult(Surviving([k \in 1..Len(boundary.kids) |->
                                   process_boundary(boundary.kids[k], verts)]))

\* every ring of a structure, left to right
RECURSIVE Rings(_)
RECURSIVE RingsOfSeq(_)
Rings(n) == IF IsRing(n) THEN <<n.idx>> ELSE RingsOfSeq(n.kids)
RingsOfSeq(ks) ==
    IF ks = <<>> THEN <<>>
    ELSE RingsOfSeq(SubSeq(ks, 1, Len(ks) - 1)) \o Rings(ks[Len(ks)])

\* some index_remap[int(idx)] / index_mapping[idx] of the structure raises
Raises(s, m, items) ==
    LET rings == RingsOfSeq(items)
    IN  \E k \in DOMAIN rings : \E j \in DOMAIN rings[k] :
            ~CanLookup(s, m, rings[k][j])

\* one iteration of "for geom in city_obj['geometry']" (lines 129-139): the
\* geometry's boundaries are replaced after all of them were processed; an
\* exception ends the script
RemapGeom ==
    /\ script = "fix_triangles"
    /\ pc = "remap"
    /\ g < Len(boundaries)
    /\ IF Raises(script, index_remap, boundaries[g + 1])
       THEN /\ pc' = "failed"
            /\ UNCHANGED <<boundaries, g>>
       ELSE /\ boundaries' =
                [boundaries EXCEPT ![g + 1] =
                    Surviving([k \in 1..Len(boundaries[g + 1]) |->
                        process_boundary(boundaries[g + 1][k], new_vertices)])]
            /\ g' = g + 1
            /\ pc' = pc
    /\ UNCHANGED <<script, runs, run, input, old_vertices, vertices, new_vertices,
                   vertex_map, index_remap, normal, axes>>

---------------------------------------------------------------------------
(* cleaner.py: update_boundaries rewrites the lists in place, index by     *)
(* index, so an exception leaves what it had already rewritten.            *)

Min(S) == CHOOSE x \in S : \A y \in S : x <= y

\* "boundaries[i] = index_mapping[item]" along one list of numbers
UpdateRing(m, r) ==
    LET bad == {k \in 1..Len(r) : ~CanLookup("cleaner", m, r[k])}
        stop == IF bad = {} THEN Len(r) + 1 ELSE Min(bad)
    IN  [items |-> [k \in 1..Len(r) |->
                       IF k < stop THEN Lookup("cleaner", m, r[k]) ELSE r[k]],
         raised |-> bad # {}]

RECURSIVE update_boundaries(_, _)
RECURSIVE UpdateItem(_, _)
update_boundaries(m, items) ==
    IF items = <<>> THEN [items |-> <<>>, raised |-> FALSE]
    ELSE LET front == update_boundaries(m, SubSeq(items, 1, Len(items) - 1))
             last == items[Len(items)]
         IN  IF front.raised
             THEN [items |-> Append(front.items, last), raised |-> TRUE]
             ELSE LET u == UpdateItem(m, last)
                  IN  [items |-> Append(front.items, u.item), raised |-> u.raised]
UpdateItem(m, n) ==
    IF IsRing(n)
    THEN LET u == UpdateRing(m, n.idx)
         IN  [item |-> Ring(u.items), raised |-> u.raised]
    ELSE LET u == update_boundaries(m, n.kids)
         IN  [item |-> List(u.items), raised |-> u.raised]

\* one iteration of "for geom in city_object['geometry']" (lines 67-69)
UpdateGeom ==
    /\ script = "cleaner"
    /\ pc = "remap"
    /\ g < Len(boundaries)
    /\ LET u == update_boundaries(index_remap, boundaries[g + 1])
       IN  /\ boundaries' = [boundaries EXCEPT ![g + 1] = u.items]
           /\ pc' = IF u.raised THEN "failed" ELSE pc
           /\ g' = IF u.raised THEN g ELSE g + 1
    /\ UNCHANGED <<script, runs, run, input, old_vertices, vertices, new_vertices,
                   vertex_map, index_remap, normal, axes>>

---------------------------------------------------------------------------
(* Part 2 of repair_geometry.py: remap a copy, then triangulate each face. *)

\* Newell's method over the exterior points
RECURSIVE NewellSum(_, _, _)
NewellSum(points, k, c) ==
    IF k > Len(points) THEN 0
    ELSE LET p1 == points[k]
             p2 == points[(k % Len(points)) + 1]
             a == ((c % 3) + 1)
             b == (((c + 1) % 3) + 1)
         IN  (p1[a] - p2[a]) * (p1[b] + p2[b]) + NewellSum(points, k + 1, c)

get_normal(points) ==
    <<NewellSum(points, 1, 1), NewellSum(points, 1, 2), NewellSum(points, 1, 3)>>

\* line 65: the two axes kept for the 2D projection
ChooseAxesTiesToZ(n) ==
    IF Abs(n[3]) >= Abs(n[1]) /\ Abs(n[3]) >= Abs(n[2]) THEN <<0, 1>>
    ELSE IF Abs(n[1]) >= Abs(n[2]) THEN <<1, 2>>
    ELSE <<0, 2>>

ChooseAxes(n) ==
    IF Abs(n[3]) > Abs(n[1]) /\ Abs(n[3]) > Abs(n[2]) THEN <<0, 1>>
    ELSE IF Abs(n[1]) > Abs(n[2]) THEN <<1, 2>>
    ELSE <<0, 2>>

RECURSIVE Concat(_)
Concat(ss) ==
    IF ss = <<>> THEN <<>> ELSE Concat(SubSeq(ss, 1, Len(ss) - 1)) \o ss[Len(ss)]

\* "for face in updated_boundaries: for ring in face: for i, old_idx in
\* enumerate(ring)": a face must be a list of lists of numbers, and
\* triangulate_face reads face_rings_indices[0]
IsFace(item) ==
    /\ item.t = "list"
    /\ item.kids # <<>>
    /\ \A k \in DOMAIN item.kids : IsRing(item.kids[k]) \/ item.kids[k] = List(<<>>)

\* the face's rings through index_mapping
MappedFace(m, item) ==
    [k \in 1..Len(item.kids) |-> MapRing("repair_geometry", m, item.kids[k].idx)]

\* "if len(set(exterior_ring_indices)) < 3: return []"
CallsEarcut(face) == Cardinality(Range(face[1])) >= 3

\* the triangulation capability: index triples into the flat point buffer.
\* Which triples it returns for the projected points is not modelled: any
\* sequence of up to MaxTris triples of three different buffer positions.
BufferTriples(n) ==
    {t \in [1..3 -> 0..(n - 1)] : t[1] # t[2] /\ t[2] # t[3] /\ t[1] # t[3]}

EarcutResults(n) == SeqsUpTo(BufferTriples(n), 0, MaxTris)

\* lines 84-93: earcut's positions back to vertex indices; no check follows
Emit(tris, verts) == tris

triangulate_face(face, result, verts) ==
    IF ~CallsEarcut(face) THEN <<>>
    ELSE LET all_indices == Concat(face)
         IN  Emit([k \in 1..Len(result) |->
                      <<all_indices[result[k][1] + 1],
                        all_indices[result[k][2] + 1],
                        all_indices[result[k][3] + 1]>>], verts)

MaxOf(S) == IF S = {} THEN 0 ELSE CHOOSE x \in S : \A y \in S : x >= y

\* one iteration of "for geom in city_object['geometry']" (lines 97-112)
TriangulateGeom ==
    /\ script = "repair_geometry"
    /\ pc = "remap"
    /\ g < Len(boundaries)
    /\ LET items == boundaries[g + 1]
       IN  IF \/ \E k \in DOMAIN items : ~IsFace(items[k])
              \/ Raises(script, index_remap, items)
           THEN /\ pc' = "failed"
                /\ UNCHANGED <<boundaries, g, normal, axes>>
           ELSE LET faces == [k \in 1..Len(items) |-> MappedFace(index_remap, items[k])]
                    npts == [k \in 1..Len(items) |-> Len(Concat(faces[k]))]
                    called == {k \in 1..Len(items) : CallsEarcut(faces[k])}
                IN  \E res \in [1..Len(items) ->
                                  EarcutResults(MaxOf({npts[k] : k \in called}))] :
                      /\ \A k \in 1..Len(items) :
                            IF k \in called THEN res[k] \in EarcutResults(npts[k])
                            ELSE res[k] = <<>>
                      /\ boundaries' =
                            [boundaries EXCEPT ![g + 1] =
                                Concat([k \in 1..Len(items) |->
                                    LET tris == triangulate_face(faces[k], res[k], new_vertices)
                                    IN  [j \in 1..Len(tris) |-> List(<<Ring(tris[j])>>)]])]
                      /\ IF called = {} THEN UNCHANGED <<normal, axes>>
                         ELSE LET ext == faces[MaxOf(called)][1]
                                  n == get_normal([j \in 1..Len(ext) |->
                                                     new_vertices[ext[j] + 1]])
                              IN  normal' = n /\ axes' = ChooseAxes(n)
                      /\ g' = g + 1
                      /\ pc' = pc
    /\ UNCHANGED <<script, runs, run, input, old_vertices, vertices, new_vertices,
                   vertex_map, index_remap>>

---------------------------------------------------------------------------
(* fix.py: keep or drop each pre-triangulated face [[[v1, v2, v3]]].       *)

\* "length_squared(cross_product(sub(p2, p1), sub(p3, p1))) < 1e-12"
IsCollinear(p1, p2, p3) ==
    length_squared(cross_product(sub(p2, p1), sub(p3, p1))) < EpsFix

\* "any(idx >= len(vertices) or idx < 0 for idx in indices)"
HasInvalidIndex(indices, verts) ==
    \E k \in DOMAIN indices : indices[k] >= Len(verts) \/ indices[k] < 0

\* "len(face) == 1 and len(face[0]) == 1 and len(face[0][0]) == 3", left to
\* right: len() of a number raises TypeError, and so does comparing a list
\* with len(vertices)
FaceClass(face) ==
    IF face.t = "ring"
    THEN IF Len(face.idx) = 1 THEN "raise" ELSE "other"
    ELSE IF Len(face.kids) # 1 THEN "other"
    ELSE LET f0 == face.kids[1]
         IN  IF f0.t = "ring"
             THEN IF Len(f0.idx) = 1 THEN "raise" ELSE "other"
             ELSE IF Len(f0.kids) # 1 THEN "other"
             ELSE LET f00 == f0.kids[1]
                  IN  IF f00.t = "ring"
                      THEN IF Len(f00.idx) = 3 THEN "triangle" ELSE "other"
                      ELSE IF Len(f00.kids) = 3 THEN "raise" ELSE "other"

\* lines 44-65: whether the face is appended to new_boundaries
KeepsFace(face, verts) ==
    IF FaceClass(face) = "triangle"
    THEN LET indices == face.kids[1].kids[1].idx
         IN  IF HasInvalidIndex(indices, verts) THEN FALSE
             ELSE ~IsCollinear(verts[indices[1] + 1], verts[indices[2] + 1],
                               verts[indices[3] + 1])
    ELSE TRUE

\* one iteration of "for geom in city_object['geometry']" (lines 38-67)
FilterGeom ==
    /\ script = "fix"
    /\ pc = "remap"
    /\ g < Len(boundaries)
    /\ LET items == boundaries[g + 1]
       IN  IF \E k \in DOMAIN items : FaceClass(items[k]) = "raise"
           THEN /\ pc' = "failed"
                /\ UNCHANGED <<boundaries, g>>
           ELSE /\ boundaries' =
                    [boundaries EXCEPT ![g + 1] =
                        SelectSeq(items, LAMBDA f : KeepsFace(f, vertices))]
                /\ g' = g + 1
                /\ pc' = pc
    /\ UNCHANGED <<script, runs, run, input, old_vertices, vertices, new_vertices,
                   vertex_map, index_remap, normal, axes>>

---------------------------------------------------------------------------
(* The end of a script, and a second run on the file it wrote.             *)

\* json.dump(data, f) after the last geometry
Save ==
    /\ pc = "remap"
    /\ g = Len(boundaries)
    /\ pc' = "done"
    /\ UNCHANGED <<script, runs, run, input, old_vertices, vertices, boundaries,
                   new_vertices, vertex_map, index_remap, g, normal, axes>>

StartPc(s) == IF s \in WeldScripts THEN "weld" ELSE "remap"

\* the state after json.load and the initialisations before the first loop
Start(s, n, verts, bnds) ==
    /\ script = s
    /\ runs = n
    /\ run = 1
    /\ pc = StartPc(s)
    /\ input = bnds
    /\ old_vertices = verts
    /\ vertices = verts
    /\ boundaries = bnds
    /\ new_vertices = <<>>
    /\ vertex_map = EmptyMap
    /\ index_remap = InitialRemap(s, Len(verts))
    /\ g = 0
    /\ normal = <<0, 0, 0>>
    /\ axes = <<0, 0>>

\* the script started again with the written file as INPUT_FILE
Rerun ==
    /\ pc = "done"
    /\ run < runs
    /\ run' = run + 1
    /\ pc' = StartPc(script)
    /\ input' = boundaries
    /\ old_vertices' = vertices
    /\ new_vertices' = <<>>
    /\ vertex_map' = EmptyMap
    /\ index_remap' = InitialRemap(script, Len(vertices))
    /\ g' = 0
    /\ normal' = <<0, 0, 0>>
    /\ axes' = <<0, 0>>
    /\ UNCHANGED <<script, runs, vertices, boundaries>>

Next ==
    \/ Weld
    \/ InstallVertices
    \/ RemapGeom
    \/ UpdateGeom
    \/ TriangulateGeom
    \/ FilterGeom
    \/ Save
    \/ Rerun

---------------------------------------------------------------------------
(* Inputs.                                                                 *)

\* A vertex array with a near-duplicate (1 welds into 0) and a collinear
\* triple (0, 2, 4).  Squared areas: (0, 2, 3) and (2, 3, 4) 10000, below both
\* thresholds; (1, 3, 4) 25600, between them; (0, 3, 4) 40000, above both.
Scene ==
    << <<0, 0, 0>>, <<4, 0, 0>>, <<10, 0, 0>>, <<0, 10, 0>>, <<20, 0, 0>> >>

\* vertex indices of the ring inputs; Len(Scene) is out of bounds, and so is
\* the -1 that only fix.py tests for
IdxPool(s) == IF s = "fix" THEN (-1)..Len(Scene) ELSE 0..Len(Scene)

\* a ring wrapped in w lists
RECURSIVE Wrap(_, _)
Wrap(w, n) == IF w = 0 THEN n ELSE List(<<Wrap(w - 1, n)>>)

\* every script on a well-formed file, once, and twice where the second run
\* does not triangulate again
BaseBoundaries(s) ==
    IF s = "fix"
    THEN << <<Wrap(2, Ring(<<0, 3, 4>>))>>, <<Wrap(2, Ring(<<0, 2, 4>>))>> >>
    ELSE IF s = "repair_geometry"
    THEN << <<Wrap(1, Ring(<<0, 3, 4>>))>>, <<Wrap(1, Ring(<<1, 2, 3>>))>> >>
    ELSE << <<Wrap(1, Ring(<<0, 3, 4>>))>>, <<Wrap(1, Ring(<<1, 2, 3, 0>>))>> >>

BaseInit ==
    \E s \in Scripts : \E n \in (IF s = "repair_geometry" THEN {1} ELSE {1, 2}) :
        Start(s, n, Scene, BaseBoundaries(s))

\* welding inputs: coordinates that round together (0, 4), to -0.0 (-4), and
\* a tie (15)
WeldPool == {<<x, y, 0>> : x \in {-4, 0, 4, 15}, y \in {0, 6}}

InitWeld ==
    \/ BaseInit
    \/ \E s \in WeldScripts : \E verts \in SeqsUpTo(WeldPool, 0, MaxVerts) :
          Start(s, 2, verts, << <<Wrap(1, Ring(<<0, 0, 0>>))>> >>)

\* ring inputs: one ring, as a boundary of its own, as a face's only ring, or
\* as the pre-triangulated pattern [[[v1, v2, v3]]]
WrapsOf(s) == IF s = "fix_triangles" THEN {0, 1, 2} ELSE {1, 2}

InitRing ==
    \/ BaseInit
    \/ \E s \in {"fix_triangles", "fix"} : \E w \in WrapsOf(s) :
          \E r \in SeqsUpTo(IdxPool(s), 1, MaxRingLen) :
             Start(s, 1, Scene, << <<Wrap(w, Ring(<<0, 3, 4>>))>>, <<Wrap(w, Ring(r))>> >>)

SpecWeld == InitWeld /\ [][Next]_vars

SpecRing == InitRing /\ [][Next]_vars

\* tree inputs for fix_triangles.py: faces over two valid rings and a
\* collinear one, and shells of faces
RingA == <<0, 3, 4>>
RingB == <<3, 4, 0>>
RingX == <<0, 2, 4>>

FacesOver(rings) ==
    {List([k \in DOMAIN f |-> Ring(f[k])]) : f \in SeqsUpTo(rings, 0, MaxRings)}

ShellsOver(faces) == {List(f) : f \in SeqsUpTo(faces, 0, MaxFaces)}

TreePool ==
    FacesOver({RingA, RingB, RingX}) \cup ShellsOver(FacesOver({RingA, RingX}))

InitTree ==
    \/ BaseInit
    \/ \E item \in TreePool : Start("fix_triangles", 1, Scene, << <<item>> >>)

\* triangulation inputs for repair_geometry.py: one triangle on three
\* vertices among the corners of a cube and three points further out
TriPool ==
    {<<x, y, z>> : x \in {0, 10}, y \in {0, 10}, z \in {0, 10}}
        \cup {<<20, 0, 0>>, <<0, 20, 0>>, <<0, 0, 20>>}

InitTri ==
    \/ BaseInit
    \/ \E verts \in [1..3 -> TriPool] :
          Start("repair_geometry", 1, verts, << <<Wrap(1, Ring(<<0, 1, 2>>))>> >>)

SpecTree == InitTree /\ [][Next]_vars

SpecTri == InitTri /\ [][Next]_vars

---------------------------------------------------------------------------
(* Properties.                                                             *)

WeldingDone == script \in WeldScripts /\ pc # "weld"

KeyAt(a) == KeyOf(script, old_vertices[a + 1])

FirstWithKey(a) == Min({b \in 0..a : KeyAt(b) = KeyAt(a)})

\* C1: after the welding loop the index map is total; two original indices
\* with the same rounded key have the same welded index; that index is the
\* one given to the first original index with the key (the number of distinct
\* keys seen before it); and the welded vertex there is that first vertex,
\* unrounded.
C1_WeldFirstOccurrence ==
    WeldingDone =>
        LET n == Len(old_vertices)
        IN  /\ DOMAIN index_remap = 0..(n - 1)
            /\ \A a \in 0..(n - 1) :
                  /\ index_remap[a] \in 0..(Len(new_vertices) - 1)
                  /\ \A b \in 0..(n - 1) :
                        KeyAt(a) = KeyAt(b) => index_remap[a] = index_remap[b]
                  /\ index_remap[a] = index_remap[FirstWithKey(a)]
                  /\ index_remap[FirstWithKey(a)] =
                        Cardinality({KeyAt(b) : b \in 0..(FirstWithKey(a) - 1)})
                  /\ new_vertices[index_remap[a] + 1] = old_vertices[FirstWithKey(a) + 1]

\* a later vertex welded into an earlier one that is not on the grid
C1_Witness ==
    /\ WeldingDone
    /\ \E a \in 0..(Len(old_vertices) - 1) :
          /\ FirstWithKey(a) < a
          /\ old_vertices[a + 1] # old_vertices[FirstWithKey(a) + 1]
          /\ StoredRounded(old_vertices[FirstWithKey(a) + 1])
                # old_vertices[FirstWithKey(a) + 1]

\* C8: welding the vertex array a welding pass wrote, at the same precision,
\* yields the identical array and the identity index map.
C8_WeldIdempotent ==
    (WeldingDone /\ run = 2) =>
        /\ new_vertices = old_vertices
        /\ index_remap = [k \in 0..(Len(old_vertices) - 1) |-> k]

\* the second run has welded an array of several vertices, one off the grid
C8_Witness ==
    /\ WeldingDone
    /\ run = 2
    /\ Len(old_vertices) >= 2
    /\ \E k \in DOMAIN old_vertices : StoredRounded(old_vertices[k]) # old_vertices[k]

\* the geometries of the running fix_triangles.py pass already replaced
Remapped == IF script = "fix_triangles" THEN 1..g ELSE {}

MappedRing(r) == MapRing("fix_triangles", index_remap, r)

CleanedRing(r) == TrimClosing(CollapseConsecutive(MappedRing(r)))

\* C2 as amended: a leaf ring that survives remapping is returned as its
\* indices mapped through the index map and nothing else: consecutive repeats
\* and a closing index stay ([0,1,2,0] is returned as [0,1,2,0]).
C2_ReturnsRemapped ==
    \A k \in Remapped :
        LET before == RingsOfSeq(input[k])
            after == RingsOfSeq(boundaries[k])
        IN  Len(before) = 1 => after = <<>> \/ after = <<MappedRing(before[1])>>

\* a ring with a closing or a consecutive duplicate survived
C2_Witness ==
    \E k \in Remapped :
        /\ Len(RingsOfSeq(input[k])) = 1
        /\ RingsOfSeq(boundaries[k]) # <<>>
        /\ CleanedRing(RingsOfSeq(input[k])[1]) # MappedRing(RingsOfSeq(input[k])[1])

\* C2 as claimed: a leaf ring that survives remapping is returned cleaned:
\* mapped, runs of equal indices collapsed, a closing index trimmed.
C2_ReturnsCleaned ==
    \A k \in Remapped :
        LET before == RingsOfSeq(input[k])
            after == RingsOfSeq(boundaries[k])
        IN  Len(before) = 1 => after = <<>> \/ after = <<CleanedRing(before[1])>>

IsRingFace(n) ==
    n.t = "list" /\ n.kids # <<>> /\ \A k \in DOMAIN n.kids : IsRing(n.kids[k])

\* C3 as claimed: a face whose exterior ring (ring 0) is invalid is absent
\* from the output, so ring 0 of every surviving face is the image of the
\* input face's ring 0.
C3_ExteriorStays ==
    \A k \in Remapped :
        (Len(input[k]) = 1 /\ IsRingFace(input[k][1]) /\ boundaries[k] # <<>>) =>
            boundaries[k][1].kids[1].idx = MappedRing(input[k][1].kids[1].idx)

\* what the claim says of a node: a ring or [] as the remapper returns it, an
\* internal node as its non-absent child results in order, absent if none
RECURSIVE C4_Expected(_)
C4_Expected(n) ==
    IF n = List(<<>>) THEN None
    ELSE IF IsRing(n) THEN ProcessRing(n.idx, new_vertices)
    ELSE LET results == [j \in 1..Len(n.kids) |-> C4_Expected(n.kids[j])]
             alive == SelectSeq(results, LAMBDA r : r.t # "none")
         IN  IF alive = <<>> THEN None ELSE List(alive)

RECURSIVE HasEmptyList(_)
HasEmptyList(n) ==
    n.t = "list" /\ (n.kids = <<>> \/ \E j \in DOMAIN n.kids : HasEmptyList(n.kids[j]))

\* C4: an internal node comes back as its non-absent child results in their
\* original order, absent exactly when no child survives; no empty list is
\* ever returned.
C4_InternalNodes ==
    \A k \in Remapped :
        /\ boundaries[k] =
              SelectSeq([j \in 1..Len(input[k]) |-> C4_Expected(input[k][j])],
                        LAMBDA r : r.t # "none")
        /\ \A j \in DOMAIN boundaries[k] : ~HasEmptyList(boundaries[k][j])

\* a shell that kept a face and lost another, the kept face having lost a ring
C4_Witness ==
    \E k \in Remapped :
        /\ Len(input[k]) = 1
        /\ Len(boundaries[k]) = 1
        /\ Len(input[k][1].kids) = 2
        /\ input[k][1].kids[2].t = "list"
        /\ Len(boundaries[k][1].kids) = 1
        /\ boundaries[k][1].kids[1].t = "list"
        /\ Len(boundaries[k][1].kids[1].kids) = 1
        /\ Len(input[k][1].kids[2].kids) = 2
        /\ boundaries[k][1].kids[1].kids[1] = Ring(MappedRing(input[k][1].kids[2].kids[2].idx))

\* three pairwise distinct indices, in bounds of the vertex array, spanning a
\* squared cross-product area of at least eps
SoundTriangle(t, verts, eps) ==
    /\ t[1] # t[2] /\ t[2] # t[3] /\ t[1] # t[3]
    /\ \A k \in 1..3 : t[k] \in 0..(Len(verts) - 1)
    /\ area_sq(verts[t[1] + 1], verts[t[2] + 1], verts[t[3] + 1]) >= eps

C6_NoAbortOnBadIndex ==
    ~(/\ pc = "failed"
      /\ script \in WeldScripts
      /\ g < Len(boundaries)
      /\ Raises(script, index_remap, boundaries[g + 1]))

\* C7 as claimed: once the pass has stopped, either nothing of the model was
\* changed, or the vertex array and every geometry's boundaries were replaced.
C7_AllOrNothing ==
    pc \in {"done", "failed"} =>
        \/ vertices = old_vertices /\ boundaries = input
        \/ /\ g = Len(boundaries)
           /\ script \in WeldScripts => vertices = new_vertices

\* C9 as claimed: no triangle emitted by the triangulator has a repeated
\* vertex index or a zero area.
C9_EmittedNonDegenerate ==
    script = "repair_geometry" =>
        \A k \in 1..g : \A j \in DOMAIN boundaries[k] :
            SoundTriangle(boundaries[k][j].kids[1].idx, new_vertices, 1)

\* a face was projected by the running repair_geometry.py
Projected == script = "repair_geometry" /\ axes # <<0, 0>>

Dropped == CHOOSE d \in 0..2 : d # axes[1] /\ d # axes[2]

\* the axes on which |normal| is largest
Largest ==
    {d \in 0..2 : \A e \in 0..2 : Abs(normal[d + 1]) >= Abs(normal[e + 1])}

\* C10 as amended: the projection keeps the two axes other than one with the
\* largest absolute normal component, and among tied largest components the
\* dropped axis is Y first, then X, then Z.
C10_TiesYXZ ==
    Projected =>
        /\ axes \in {<<0, 1>>, <<1, 2>>, <<0, 2>>}
        /\ Dropped \in Largest
        /\ 1 \in Largest => Dropped = 1
        /\ (1 \notin Largest /\ 0 \in Largest) => Dropped = 0

\* a tie for the largest component that involves Z
C10_Witness ==
    Projected /\ normal # <<0, 0, 0>> /\ 2 \in Largest /\ Cardinality(Largest) >= 2

\* C10 as claimed: among tied largest components the dropped axis is Z first,
\* then X, then Y (stated of the normals that are not zero).
C10_TiesZXY ==
    (Projected /\ normal # <<0, 0, 0>>) =>
        /\ axes \in {<<0, 1>>, <<1, 2>>, <<0, 2>>}
        /\ Dropped \in Largest
        /\ 2 \in Largest => Dropped = 2
        /\ (2 \notin Largest /\ 0 \in Largest) => Dropped = 0

============================================================================
